---------------------------- MODULE Spec2Model ----------------------------
(***************************************************************************)
(* A model of tslist (src/tslist.go): a linked list whose List and         *)
(* Element objects each carry a sync.RWMutex.                              *)
(*                                                                         *)
(* Elements are numbered 1..MaxElems in the order in which Append links    *)
(* them (an element gets its number when Append links it, under the list   *)
(* lock); Nil stands for a nil *Element.  The payload is                   *)
(* opaque and never written after construction, so it is not part of the   *)
(* state: Value() is modelled for its locking only.                        *)
(*                                                                         *)
(* Every method is cut into steps at its lock acquisitions.  A thread's    *)
(* position is pc[t]; "idle" means that it is between two calls.  A run    *)
(* makes at most MaxCalls method calls and MaxElems appends.               *)
(***************************************************************************)
EXTENDS Integers, FiniteSets, Sequences

\* Bounds of the model.
MaxElems == 3
NumThreads == 2
MaxCalls == 6

Nil == 0
Elems == 1..MaxElems
Threads == 1..NumThreads
\* The list's own mutex, as a member of a deferred-unlock set.
ListLock == 0

VARIABLES
    head,       \* List.head
    tail,       \* List.tail
    size,       \* List.size
    next,       \* Element.next, per element
    prev,       \* Element.prev, per element
    remove,     \* Element.remove, per element
    removed,    \* Element.removed, per element
    nalloc,     \* number of elements linked by Append so far
    listW,      \* thread holding List.m exclusively, or 0
    elemW,      \* per element: thread holding Element.m exclusively, or 0
    elemR,      \* per element: threads holding Element.m shared
    pc,         \* per thread: position in the method it is running
    arg,        \* per thread: the receiver e of the method it is running
    cur,        \* per thread: Next's local `next`; Append's locked tail
    dfr,        \* per thread: mutexes whose unlock has been deferred
    done,       \* per thread: RemoveMarked's loop variable
    calls       \* number of method calls made so far

vars == <<head, tail, size, next, prev, remove, removed, nalloc,
          listW, elemW, elemR, pc, arg, cur, dfr, done, calls>>

list == <<head, tail, size, next, prev>>
flags == <<remove, removed>>
heap == <<list, flags, nalloc, calls>>
locks == <<listW, elemW, elemR>>

----------------------------------------------------------------------------
\* sync.RWMutex

\* The element whose exclusive lock thread t has asked for and not yet got.
\* A blocked Lock() call keeps new readers out (writer preference).
WantsLock(t) ==
    CASE pc[t] = "a_tail" -> tail
      [] pc[t] = "r_prev" -> prev[arg[t]]
      [] pc[t] = "r_self" -> arg[t]
      [] pc[t] = "r_next" -> next[arg[t]]
      [] pc[t] = "m_lock" -> arg[t]
      [] OTHER -> Nil

\* m.Lock() on element e returns.
CanLock(e) == elemW[e] = 0 /\ elemR[e] = {}

\* m.RLock() on element e returns.
CanRLock(e) == elemW[e] = 0 /\ \A u \in Threads : WantsLock(u) # e

\* The deferred unlocks of thread t run: every mutex in dfr[t] is released.
RunDefers(t) ==
    /\ listW' = IF ListLock \in dfr[t] /\ listW = t THEN 0 ELSE listW
    /\ elemW' = [e \in Elems |->
                    IF e \in dfr[t] /\ elemW[e] = t THEN 0 ELSE elemW[e]]
    /\ elemR' = [e \in Elems |->
                    IF e \in dfr[t] THEN elemR[e] \ {t} ELSE elemR[e]]
    /\ dfr' = [dfr EXCEPT ![t] = {}]

\* The method returns: defers run, the locals are dropped.
Return(t) ==
    /\ RunDefers(t)
    /\ pc' = [pc EXCEPT ![t] = "idle"]
    /\ arg' = [arg EXCEPT ![t] = Nil]
    /\ cur' = [cur EXCEPT ![t] = Nil]
    /\ done' = [done EXCEPT ![t] = FALSE]

\* The handles a caller can hold: the elements Append has returned.
Handles == 1..nalloc

\* A thread between calls starts method m on receiver e.
Call(t, m, e) ==
    /\ pc[t] = "idle"
    /\ calls < MaxCalls
    /\ calls' = calls + 1
    /\ pc' = [pc EXCEPT ![t] = m]
    /\ arg' = [arg EXCEPT ![t] = e]
    /\ UNCHANGED <<list, flags, nalloc, locks, cur, dfr, done>>

----------------------------------------------------------------------------
\* List.Append

\* Appends called that have not linked their element yet.
PendingAppends ==
    Cardinality({t \in Threads : pc[t] \in {"a_list", "a_tail", "a_link"}})

AppendCall(t) ==
    /\ nalloc + PendingAppends < MaxElems
    /\ Call(t, "a_list", Nil)

\* l.m.Lock(); defer l.m.Unlock()
\* if l.head == nil { l.head = e; l.tail = e; return e }
AppendFirst(t) ==
    /\ pc[t] = "a_list"
    /\ listW = 0
    /\ head = Nil
    /\ nalloc' = nalloc + 1
    /\ head' = nalloc + 1
    /\ tail' = nalloc + 1
    /\ Return(t)
    /\ UNCHANGED <<size, next, prev, flags, calls>>

\* l.m.Lock(); defer l.m.Unlock()
\* l.head != nil: go on to lock the tail.
AppendNotFirst(t) ==
    /\ pc[t] = "a_list"
    /\ listW = 0
    /\ head # Nil
    /\ listW' = t
    /\ dfr' = [dfr EXCEPT ![t] = @ \cup {ListLock}]
    /\ pc' = [pc EXCEPT ![t] = "a_tail"]
    /\ UNCHANGED <<heap, elemW, elemR, arg, cur, done>>

\* AppendLockTail with the deferred unlock applied to whatever l.tail is on
\* return, the new element.
AppendLockTailDefersNew(t) ==
    /\ pc[t] = "a_tail"
    /\ tail # Nil
    /\ CanLock(tail)
    /\ elemW' = [elemW EXCEPT ![tail] = t]
    /\ cur' = [cur EXCEPT ![t] = tail]
    /\ dfr' = [dfr EXCEPT ![t] = @ \cup {nalloc + 1}]
    /\ pc' = [pc EXCEPT ![t] = "a_link"]
    /\ UNCHANGED <<heap, listW, elemR, arg, done>>

\* l.tail.m.Lock(); defer l.tail.m.Unlock(): the deferred call's receiver is
\* evaluated here, so it is this tail that is unlocked on return.
AppendLockTail(t) ==
    /\ pc[t] = "a_tail"
    /\ tail # Nil
    /\ CanLock(tail)
    /\ elemW' = [elemW EXCEPT ![tail] = t]
    /\ cur' = [cur EXCEPT ![t] = tail]
    /\ dfr' = [dfr EXCEPT ![t] = @ \cup {tail}]
    /\ pc' = [pc EXCEPT ![t] = "a_link"]
    /\ UNCHANGED <<heap, listW, elemR, arg, done>>

\* l.tail.m.Lock() with l.tail == nil (head is set, tail is not): a nil
\* dereference.  The panic unwinds Append, running the deferred l.m.Unlock();
\* the call ends without having linked its element.
AppendNilTail(t) ==
    /\ pc[t] = "a_tail"
    /\ tail = Nil
    /\ Return(t)
    /\ UNCHANGED heap

\* l.tail.next = e; e.prev = l.tail; l.tail = e; l.size++; return e
AppendLink(t) ==
    /\ pc[t] = "a_link"
    /\ nalloc' = nalloc + 1
    /\ next' = [next EXCEPT ![tail] = nalloc + 1]
    /\ prev' = [prev EXCEPT ![nalloc + 1] = tail]
    /\ tail' = nalloc + 1
    /\ size' = size + 1
    /\ Return(t)
    /\ UNCHANGED <<head, flags, calls>>

----------------------------------------------------------------------------
\* Element.Remove

RemoveCall(t, e) == Call(t, "r_check", e)

\* RemoveCheck testing the wrong flag: if e.remove { return }
RemoveCheckMark(t) ==
    /\ pc[t] = "r_check"
    /\ IF remove[arg[t]]
         THEN Return(t)
         ELSE /\ pc' = [pc EXCEPT ![t] = "r_list"]
              /\ UNCHANGED <<locks, arg, cur, dfr, done>>
    /\ UNCHANGED heap

\* if e.removed { return }: read without any lock.
RemoveCheck(t) ==
    /\ pc[t] = "r_check"
    /\ IF removed[arg[t]]
         THEN Return(t)
         ELSE /\ pc' = [pc EXCEPT ![t] = "r_list"]
              /\ UNCHANGED <<locks, arg, cur, dfr, done>>
    /\ UNCHANGED heap

\* e.l.m.Lock(); defer e.l.m.Unlock()
RemoveLockList(t) ==
    /\ pc[t] = "r_list"
    /\ listW = 0
    /\ listW' = t
    /\ dfr' = [dfr EXCEPT ![t] = @ \cup {ListLock}]
    /\ pc' = [pc EXCEPT ![t] = "r_prev"]
    /\ UNCHANGED <<heap, elemW, elemR, arg, cur, done>>

\* Thread t takes the exclusive lock of element n, if there is one, defers its
\* unlock and moves on to position p.
LockNeighbour(t, n, p) ==
    /\ IF n # Nil
         THEN /\ CanLock(n)
              /\ elemW' = [elemW EXCEPT ![n] = t]
              /\ dfr' = [dfr EXCEPT ![t] = @ \cup {n}]
         ELSE UNCHANGED <<elemW, dfr>>
    /\ pc' = [pc EXCEPT ![t] = p]
    /\ UNCHANGED <<heap, listW, elemR, arg, cur, done>>

\* if e.prev != nil { e.prev.m.Lock(); defer e.prev.m.Unlock() }
RemoveLockPrev(t) ==
    /\ pc[t] = "r_prev"
    /\ LockNeighbour(t, prev[arg[t]], "r_self")

\* e.m.Lock(); defer e.m.Unlock()
RemoveLockSelf(t) ==
    /\ pc[t] = "r_self"
    /\ LockNeighbour(t, arg[t], "r_next")

\* if e.next != nil { e.next.m.Lock(); defer e.next.m.Unlock() }
RemoveLockNext(t) ==
    /\ pc[t] = "r_next"
    /\ LockNeighbour(t, next[arg[t]], "r_body")

\* The links after lines 150-170 have run on element e.
UnlinkHead(e) == IF prev[e] = Nil THEN next[e] ELSE head

UnlinkTail(e) ==
    IF prev[e] = Nil /\ next[e] = Nil THEN Nil
    ELSE IF prev[e] # Nil /\ next[e] = Nil THEN prev[e]
    ELSE tail

\* UnlinkNext writing the wrong neighbour: e.next.next = e.prev.
UnlinkNextBackward(e) ==
    IF next[e] # Nil THEN [next EXCEPT ![next[e]] = prev[e]] ELSE next

UnlinkNext(e) ==
    IF prev[e] # Nil THEN [next EXCEPT ![prev[e]] = next[e]] ELSE next

\* UnlinkPrev without the head case's e.next.prev = nil.
UnlinkPrevInnerOnly(e) ==
    IF next[e] # Nil /\ prev[e] # Nil
      THEN [prev EXCEPT ![next[e]] = prev[e]]
      ELSE prev

UnlinkPrev(e) ==
    IF next[e] # Nil THEN [prev EXCEPT ![next[e]] = prev[e]] ELSE prev

\* RemoveUnlink clearing the mark of the element it removes.
RemoveUnlinkClearsMark(t) ==
    /\ pc[t] = "r_body"
    /\ removed' = [removed EXCEPT ![arg[t]] = TRUE]
    /\ remove' = [remove EXCEPT ![arg[t]] = FALSE]
    /\ size' = size - 1
    /\ head' = UnlinkHead(arg[t])
    /\ tail' = UnlinkTail(arg[t])
    /\ next' = UnlinkNext(arg[t])
    /\ prev' = UnlinkPrev(arg[t])
    /\ Return(t)
    /\ UNCHANGED <<nalloc, calls>>

\* e.removed = true; e.l.size--; then the four cases by position.
RemoveUnlink(t) ==
    /\ pc[t] = "r_body"
    /\ removed' = [removed EXCEPT ![arg[t]] = TRUE]
    /\ size' = size - 1
    /\ head' = UnlinkHead(arg[t])
    /\ tail' = UnlinkTail(arg[t])
    /\ next' = UnlinkNext(arg[t])
    /\ prev' = UnlinkPrev(arg[t])
    /\ Return(t)
    /\ UNCHANGED <<remove, nalloc, calls>>

----------------------------------------------------------------------------
\* Element.Next

NextCall(t, e) == Call(t, "n_self", e)

\* e.m.RLock(); defer e.m.RUnlock(); next := e.next
NextLockSelf(t) ==
    /\ pc[t] = "n_self"
    /\ CanRLock(arg[t])
    /\ elemR' = [elemR EXCEPT ![arg[t]] = @ \cup {t}]
    /\ dfr' = [dfr EXCEPT ![t] = @ \cup {arg[t]}]
    /\ cur' = [cur EXCEPT ![t] = next[arg[t]]]
    /\ pc' = [pc EXCEPT ![t] = "n_loop"]
    /\ UNCHANGED <<heap, listW, elemW, arg, done>>

\* Skips testing the wrong flag: next != nil && next.removed
SkipsRemoved(n) == n # Nil /\ removed[n]

\* The loop condition: next != nil && next.ToRemove()
Skips(n) == n # Nil /\ remove[n]

\* The loop condition is evaluated; next.ToRemove() takes and drops next's
\* shared lock.  When it is false, Next returns cur[t].
NextTest(t) ==
    /\ pc[t] = "n_loop"
    /\ cur[t] # Nil => CanRLock(cur[t])
    /\ IF Skips(cur[t])
         THEN /\ pc' = [pc EXCEPT ![t] = "n_skip"]
              /\ UNCHANGED <<locks, arg, cur, dfr, done>>
         ELSE Return(t)
    /\ UNCHANGED heap

\* NextSkip without its defer: the shared lock is never given back.
NextSkipNoDefer(t) ==
    /\ pc[t] = "n_skip"
    /\ CanRLock(cur[t])
    /\ elemR' = [elemR EXCEPT ![cur[t]] = @ \cup {t}]
    /\ cur' = [cur EXCEPT ![t] = next[cur[t]]]
    /\ pc' = [pc EXCEPT ![t] = "n_loop"]
    /\ UNCHANGED <<heap, listW, elemW, arg, dfr, done>>

\* next.m.RLock(); defer next.m.RUnlock(); next = next.next
NextSkip(t) ==
    /\ pc[t] = "n_skip"
    /\ CanRLock(cur[t])
    /\ elemR' = [elemR EXCEPT ![cur[t]] = @ \cup {t}]
    /\ dfr' = [dfr EXCEPT ![t] = @ \cup {cur[t]}]
    /\ cur' = [cur EXCEPT ![t] = next[cur[t]]]
    /\ pc' = [pc EXCEPT ![t] = "n_loop"]
    /\ UNCHANGED <<heap, listW, elemW, arg, done>>

----------------------------------------------------------------------------
\* Element.RemoveMark, Element.ToRemove, Element.Value

RemoveMarkCall(t, e) == Call(t, "m_lock", e)

\* RemoveMark setting the removed flag as well as the mark.
RemoveMarkBothFlags(t) ==
    /\ pc[t] = "m_lock"
    /\ CanLock(arg[t])
    /\ remove' = [remove EXCEPT ![arg[t]] = TRUE]
    /\ removed' = [removed EXCEPT ![arg[t]] = TRUE]
    /\ Return(t)
    /\ UNCHANGED <<list, nalloc, calls>>

\* e.m.Lock(); e.remove = true; e.m.Unlock()
RemoveMark(t) ==
    /\ pc[t] = "m_lock"
    /\ CanLock(arg[t])
    /\ remove' = [remove EXCEPT ![arg[t]] = TRUE]
    /\ Return(t)
    /\ UNCHANGED <<list, removed, nalloc, calls>>

ToRemoveCall(t, e) == Call(t, "t_read", e)

\* e.m.RLock(); return e.remove
ToRemove(t) ==
    /\ pc[t] = "t_read"
    /\ CanRLock(arg[t])
    /\ Return(t)
    /\ UNCHANGED heap

ValueCall(t, e) == Call(t, "v_read", e)

\* e.m.RLock(); return e.value
Value(t) ==
    /\ pc[t] = "v_read"
    /\ CanRLock(arg[t])
    /\ Return(t)
    /\ UNCHANGED heap

----------------------------------------------------------------------------
\* List.Head, List.Len, List.RemoveMarked

HeadCall(t) == Call(t, "h_read", Nil)

\* l.m.RLock(); return l.head
ListHead(t) ==
    /\ pc[t] = "h_read"
    /\ listW = 0
    /\ Return(t)
    /\ UNCHANGED heap

LenCall(t) == Call(t, "l_read", Nil)

\* l.m.RLock(); return l.size
ListLen(t) ==
    /\ pc[t] = "l_read"
    /\ listW = 0
    /\ Return(t)
    /\ UNCHANGED heap

\* for done := true; ...: the loop's init statement.
RemoveMarkedCall(t) ==
    /\ pc[t] = "idle"
    /\ calls < MaxCalls
    /\ calls' = calls + 1
    /\ pc' = [pc EXCEPT ![t] = "s_for"]
    /\ done' = [done EXCEPT ![t] = TRUE]
    /\ UNCHANGED <<list, flags, nalloc, locks, arg, cur, dfr>>

\* The loop's condition, !done, is evaluated.  A pass over the list (lines
\* 70-78) would start at e := l.head.
RemoveMarkedFor(t) ==
    /\ pc[t] = "s_for"
    /\ IF ~done[t]
         THEN /\ pc' = [pc EXCEPT ![t] = "s_pass"]
              /\ cur' = [cur EXCEPT ![t] = head]
              /\ UNCHANGED <<locks, arg, dfr, done>>
         ELSE Return(t)
    /\ UNCHANGED heap

----------------------------------------------------------------------------
Init ==
    /\ head = Nil
    /\ tail = Nil
    /\ size = 0
    /\ next = [e \in Elems |-> Nil]
    /\ prev = [e \in Elems |-> Nil]
    /\ remove = [e \in Elems |-> FALSE]
    /\ removed = [e \in Elems |-> FALSE]
    /\ nalloc = 0
    /\ listW = 0
    /\ elemW = [e \in Elems |-> 0]
    /\ elemR = [e \in Elems |-> {}]
    /\ pc = [t \in Threads |-> "idle"]
    /\ arg = [t \in Threads |-> Nil]
    /\ cur = [t \in Threads |-> Nil]
    /\ dfr = [t \in Threads |-> {}]
    /\ done = [t \in Threads |-> FALSE]
    /\ calls = 0

Next ==
    \E t \in Threads :
        \/ AppendCall(t)
        \/ AppendFirst(t)
        \/ AppendNotFirst(t)
        \/ AppendLockTail(t)
        \/ AppendNilTail(t)
        \/ AppendLink(t)
        \/ \E e \in Handles : RemoveCall(t, e)
        \/ RemoveCheck(t)
        \/ RemoveLockList(t)
        \/ RemoveLockPrev(t)
        \/ RemoveLockSelf(t)
        \/ RemoveLockNext(t)
        \/ RemoveUnlink(t)
        \/ \E e \in Handles : NextCall(t, e)
        \/ NextLockSelf(t)
        \/ NextTest(t)
        \/ NextSkip(t)
        \/ \E e \in Handles : RemoveMarkCall(t, e)
        \/ RemoveMark(t)
        \/ \E e \in Handles : ToRemoveCall(t, e)
        \/ ToRemove(t)
        \/ \E e \in Handles : ValueCall(t, e)
        \/ Value(t)
        \/ HeadCall(t)
        \/ ListHead(t)
        \/ LenCall(t)
        \/ ListLen(t)
        \/ RemoveMarkedCall(t)
        \/ RemoveMarkedFor(t)

Spec == Init /\ [][Next]_vars

\* Under fair scheduling a thread inside a method keeps taking its steps: the
\* Go scheduler runs every runnable goroutine, and sync.RWMutex hands a lock
\* that is freed again and again to each of its waiters in the end.
Step(t) ==
    /\ pc[t] # "idle"
    /\ \/ AppendFirst(t) \/ AppendNotFirst(t) \/ AppendLockTail(t)
       \/ AppendNilTail(t) \/ AppendLink(t)
       \/ RemoveCheck(t) \/ RemoveLockList(t) \/ RemoveLockPrev(t)
       \/ RemoveLockSelf(t) \/ RemoveLockNext(t) \/ RemoveUnlink(t)
       \/ NextLockSelf(t) \/ NextTest(t) \/ NextSkip(t)
       \/ RemoveMark(t) \/ ToRemove(t) \/ Value(t)
       \/ ListHead(t) \/ ListLen(t) \/ RemoveMarkedFor(t)

FairSpec == Spec /\ \A t \in Threads : SF_vars(Step(t))

----------------------------------------------------------------------------
\* What the read-only methods return when they run in the current state.

\* List.Len
LenResult == size

\* List.Head
HeadResult == head

\* Element.Next's loop, started at n and run without interference; k bounds
\* the number of iterations.
RECURSIVE SkipMarked(_, _)
SkipMarked(n, k) ==
    IF k > 0 /\ Skips(n) THEN SkipMarked(next[n], k - 1) ELSE n

\* Element.Next
NextResult(e) == SkipMarked(next[e], MaxElems)

\* The elements a caller sees who starts at Head() and calls Next() until it
\* returns nil (at most k elements of them).
RECURSIVE Walk(_, _)
Walk(e, k) ==
    IF e = Nil \/ k = 0 THEN <<>> ELSE <<e>> \o Walk(NextResult(e), k - 1)

Traversal == Walk(HeadResult, MaxElems + 1)

\* The elements linked from e on by their next fields, marked or not (at
\* most k of them).
RECURSIVE Chain(_, _)
Chain(e, k) ==
    IF e = Nil \/ k = 0 THEN <<>> ELSE <<e>> \o Chain(next[e], k - 1)

Linked == Chain(head, MaxElems + 1)

Range(q) == {q[i] : i \in 1..Len(q)}

Increasing(q) == \A i, j \in 1..Len(q) : i < j => q[i] < q[j]

AllIdle == \A t \in Threads : pc[t] = "idle"

InRemove(t) ==
    pc[t] \in {"r_check", "r_list", "r_prev", "r_self", "r_next", "r_body"}

InAppend(t) == pc[t] \in {"a_list", "a_tail", "a_link"}

\* Thread t returns from the method it is running.
Returns(t) == pc[t] # "idle" /\ pc'[t] = "idle"

----------------------------------------------------------------------------
\* C1.  After N >= 1 Append calls on a new list and no other call, Len()
\* returns N.
C1_AppendLen ==
    (AllIdle /\ calls = nalloc /\ nalloc >= 1) => LenResult = nalloc

\* C2.  Whenever the list lock is free, size is the number of elements linked
\* from head.
C2_SizeIsChainLength ==
    listW = 0 => size = Len(Linked)

----------------------------------------------------------------------------
\* Who waits for whom.

\* The element whose shared lock thread t needs for its next step.
WantsRLock(t) ==
    CASE pc[t] \in {"n_self", "t_read", "v_read"} -> arg[t]
      [] pc[t] \in {"n_loop", "n_skip"} -> cur[t]
      [] OTHER -> Nil

\* Thread t needs the list lock for its next step.
WantsListLock(t) == pc[t] \in {"a_list", "r_list", "h_read", "l_read"}

\* The threads that keep thread t from taking its next step: the holders of
\* the lock it waits for and, for a shared lock, the writers queued for it.
Blockers(t) ==
    LET w == WantsLock(t)
        r == WantsRLock(t)
    IN  (IF w # Nil THEN ({elemW[w]} \cup elemR[w]) \ {0} ELSE {})
        \cup (IF r # Nil
                THEN ({elemW[r]} \ {0})
                     \cup {u \in Threads : WantsLock(u) = r}
                ELSE {})
        \cup (IF WantsListLock(t) THEN {listW} \ {0} ELSE {})

\* No set of threads in which each waits for another of the set (or itself).
NoCircularWait ==
    \A S \in SUBSET Threads :
        S # {} => \E t \in S : Blockers(t) \cap S = {}

\* C3.  Deadlock freedom: there is never a circular wait, and under fair
\* scheduling every method call that has started comes to its end.
C3_DeadlockFree ==
    /\ []NoCircularWait
    /\ \A t \in Threads : (pc[t] # "idle") ~> (pc[t] = "idle")

\* A Remove that holds the list lock waits for a Next that holds the shared
\* locks of two elements.
C3_Witness ==
    \E t, u \in Threads :
        /\ pc[t] \in {"r_prev", "r_self", "r_next"}
        /\ u \in Blockers(t)
        /\ pc[u] \in {"n_loop", "n_skip"}
        /\ Cardinality(dfr[u]) >= 2

----------------------------------------------------------------------------
\* C4.  Of several Remove calls on one element only one unlinks it and
\* decrements size: Remove never runs its body on an element whose removed
\* flag is already set.
C4_RemoveOnce ==
    [][\A t \in Threads :
          (pc[t] = "r_body" /\ Returns(t)) => ~removed[arg[t]]]_vars

\* C5.  When no Append and no Remove is in progress, every element that
\* Append has returned and on which Remove was never called is linked from
\* head, and these elements are linked in the order of their appends.
\* (A Remove call on e that has returned has left removed[e] set.)
C5_NoLostElement ==
    (\A t \in Threads : ~InAppend(t) /\ ~InRemove(t)) =>
        /\ \A e \in Handles : ~removed[e] => e \in Range(Linked)
        /\ Increasing(Linked)

\* C6.  Every next link leads to an element appended later, so that following
\* next from head or from any element visits no element twice and ends at nil.
C6_Acyclic ==
    /\ \A e \in Elems : next[e] # Nil => next[e] > e
    /\ \A e \in Elems \cup {head} :
          LET q == Chain(e, MaxElems + 1)
          IN  Len(q) <= MaxElems /\ Increasing(q)

\* Two elements are linked and an element has been unlinked from between its
\* neighbours.
C6_Witness ==
    /\ Len(Linked) >= 2
    /\ \E e \in Elems : removed[e] /\ prev[e] # Nil /\ next[e] # Nil

----------------------------------------------------------------------------
\* No Remove has been called so far.
NoRemoval ==
    /\ \A e \in Elems : ~removed[e]
    /\ \A t \in Threads : ~InRemove(t)

\* C7 as claimed.  Before any Remove, an element whose RemoveMark has returned
\* is never among the elements of a traversal from Head(), though it is
\* still linked.
C7_TraversalSkipsMarked ==
    NoRemoval =>
        \A x \in Handles :
            remove[x] => x \notin Range(Traversal) /\ x \in Range(Linked)

\* C7 as amended.  Before any Remove, an element whose RemoveMark has returned
\* and which is not the one Head() returns is never among the elements of a
\* traversal from Head(), though it is still linked; Next never returns an
\* element whose mark it has read as set; and RemoveMark leaves what Len()
\* returns as it was.
C7_TraversalSkipsMarkedButHead ==
    /\ [](NoRemoval =>
            \A x \in Handles :
                (remove[x] /\ x # HeadResult) =>
                    x \notin Range(Traversal) /\ x \in Range(Linked))
    /\ [][\A t \in Threads :
             /\ (pc[t] = "n_loop" /\ Returns(t) /\ cur[t] # Nil)
                    => ~remove[cur[t]]
             /\ (pc[t] = "m_lock" /\ Returns(t))
                    => remove'[arg[t]] /\ LenResult' = LenResult]_vars

\* Nothing has been removed, a marked element that is not the head is linked
\* and a traversal passes over it to a later element.
C7_Witness ==
    /\ NoRemoval
    /\ AllIdle
    /\ \E x \in Handles :
          /\ remove[x]
          /\ x # HeadResult
          /\ \E i \in 1..Len(Traversal) : Traversal[i] > x

\* C8.  A RemoveMarked call that runs with no other call in progress removes
\* every marked element: each has removed set when it returns, and Len() has
\* gone down by their number.
C8_SweepRemovesMarked ==
    [][\A t \in Threads :
          (pc[t] = "s_for" /\ Returns(t)
              /\ \A u \in Threads \ {t} : pc[u] = "idle")
          => LET S == {e \in Handles : remove[e] /\ ~removed[e]}
             IN  /\ \A e \in S : removed'[e]
                 /\ LenResult' = LenResult - Cardinality(S)]_vars

\* C9.  A Remove call on e that runs its body leaves removed[e] set, and a
\* Remove call on an element whose removed flag is set returns at once and
\* changes neither size, head, tail nor any link: a second call in sequence
\* leaves the list as the first one left it.
C9_SecondRemoveIsNoOp ==
    [][\A t \in Threads :
          /\ (pc[t] = "r_body" /\ Returns(t)) => removed'[arg[t]]
          /\ (pc[t] = "r_check" /\ removed[arg[t]] /\ pc'[t] # pc[t])
                => Returns(t) /\ UNCHANGED <<list, flags, locks>>]_vars

\* A Remove call has started on an element that an earlier call removed, and
\* nothing else is running.
C9_Witness ==
    \E t \in Threads :
        /\ pc[t] = "r_check"
        /\ removed[arg[t]]
        /\ \A u \in Threads \ {t} : pc[u] = "idle"

\* C10.  When Remove returns from the only element of the list, with no other
\* call in progress, Head() is nil, tail is nil and Len() is 0.
C10_SoleRemoveEmpties ==
    [][\A t \in Threads :
          (pc[t] = "r_body" /\ Returns(t) /\ Linked = <<arg[t]>>
              /\ \A u \in Threads \ {t} : pc[u] = "idle")
          => HeadResult' = Nil /\ tail' = Nil /\ LenResult' = 0]_vars

----------------------------------------------------------------------------
\* Among the elements linked from head: head has no predecessor, tail is the
\* last of them and has no successor, and each prev link is the reverse of
\* a next link.
LinksConsistent ==
    LET q == Linked
    IN  /\ head # Nil =>
              /\ prev[head] = Nil
              /\ tail = q[Len(q)]
              /\ next[tail] = Nil
        /\ \A i \in 1..(Len(q) - 1) : prev[q[i + 1]] = q[i]

\* The list is doubly linked the way sequential use leaves it.
DoublyLinked == (head = Nil) = (tail = Nil) /\ LinksConsistent

\* Thread t is about to run Remove's body on a linked element of a doubly
\* linked list of at least n elements, with no other call in progress.
RemovesAlone(t, n) ==
    /\ pc[t] = "r_body"
    /\ \A u \in Threads \ {t} : pc[u] = "idle"
    /\ DoublyLinked
    /\ Len(Linked) >= n
    /\ arg[t] \in Range(Linked)

\* C11.  On a list of at least two elements and with no other call in
\* progress, Remove on the head makes its successor the head and clears that
\* element's prev; Remove on the tail makes its predecessor the tail and
\* clears that element's next; Remove on an element in between links its
\* predecessor and its successor to each other; head, tail and all other
\* links stay as they were.
C11_PositionalRemove ==
    [][\A t \in Threads :
          (RemovesAlone(t, 2) /\ Returns(t)) =>
             LET q == Linked
                 i == CHOOSE j \in 1..Len(q) : q[j] = arg[t]
             IN  /\ i = 1 =>
                       /\ head' = q[2]
                       /\ prev' = [prev EXCEPT ![q[2]] = Nil]
                       /\ UNCHANGED <<tail, next>>
                 /\ i = Len(q) =>
                       /\ tail' = q[i - 1]
                       /\ next' = [next EXCEPT ![q[i - 1]] = Nil]
                       /\ UNCHANGED <<head, prev>>
                 /\ (1 < i /\ i < Len(q)) =>
                       /\ next' = [next EXCEPT ![q[i - 1]] = q[i + 1]]
                       /\ prev' = [prev EXCEPT ![q[i + 1]] = q[i - 1]]
                       /\ UNCHANGED <<head, tail>>]_vars

\* Remove is about to unlink the middle one of three linked elements.
C11_Witness ==
    \E t \in Threads :
        /\ RemovesAlone(t, 3)
        /\ arg[t] # head
        /\ arg[t] # tail

\* C12.  Whenever no Append or Remove holds the list lock, head is absent
\* exactly when tail is absent, and exactly when no element is reachable
\* from head.
C12_HeadTailEmptiness ==
    listW = 0 =>
        /\ (head = Nil) = (tail = Nil)
        /\ (head = Nil) = (Linked = <<>>)

\* No thread is inside Append or Remove.
NoStructuralOp == \A t \in Threads : ~InAppend(t) /\ ~InRemove(t)

\* C13.  Whenever no Append or Remove is in progress, no element whose
\* removed flag is set is reachable from head through next links, and
\* neither head nor tail is such an element.
C13_RemovedUnreachable ==
    NoStructuralOp =>
        /\ \A e \in Range(Linked) : ~removed[e]
        /\ head # Nil => ~removed[head]
        /\ tail # Nil => ~removed[tail]

\* Element x is linked from head, not marked for removal and not removed.
Live(x) == x \in Range(Linked) /\ ~remove[x] /\ ~removed[x]

\* The first live element appended after e, or Nil.
FirstLiveAfter(e) ==
    LET later == {x \in Elems : x > e /\ Live(x)}
    IN  IF later = {} THEN Nil
        ELSE CHOOSE x \in later : \A y \in later : x <= y

\* C14.  Whatever the handle e, marked or removed handles included, the
\* element e.Next() returns is absent or is, when Next returns, neither
\* marked nor removed, and it is the first such element after e in append
\* order among the elements still linked.
C14_NextReturnsLive ==
    [][\A t \in Threads :
          (pc[t] = "n_loop" /\ Returns(t)) =>
              /\ cur[t] # Nil => ~remove'[cur[t]] /\ ~removed'[cur[t]]
              /\ cur[t] = FirstLiveAfter(arg[t])]_vars

\* C15.  Len() never returns a negative number: the cached size is at least
\* zero in every reachable state.
C15_SizeNotNegative == LenResult >= 0

\* C16.  e.RemoveMark() sets e's mark and changes nothing else: size, head,
\* tail, every next and prev link and every removed flag stay as they were,
\* and the call never holds the list lock.  A second call on the same
\* element changes nothing at all.
C16_RemoveMarkFrame ==
    [][\A t \in Threads :
          (pc[t] = "m_lock" /\ Returns(t)) =>
              /\ remove' = [remove EXCEPT ![arg[t]] = TRUE]
              /\ UNCHANGED <<size, head, tail, next, prev, removed>>
              /\ listW # t /\ ListLock \notin dfr[t] /\ listW' = listW
              /\ remove[arg[t]] => UNCHANGED <<list, flags>>]_vars

\* A second RemoveMark is about to act on an element already marked, while
\* another thread holds the list lock.
C16_Witness ==
    \E t \in Threads :
        /\ pc[t] = "m_lock"
        /\ remove[arg[t]]
        /\ listW \in Threads \ {t}

\* C17.  Both removal flags only ever go from false to true: an element
\* that is marked stays marked and an element that is removed stays removed,
\* whatever operation runs next.
C17_FlagsMonotone ==
    [][\A e \in Elems :
          /\ remove[e] => remove'[e]
          /\ removed[e] => removed'[e]]_vars

\* Remove's body is about to run on an element that is already marked and
\* already removed.
C17_Witness ==
    \E t \in Threads :
        /\ pc[t] = "r_body"
        /\ remove[arg[t]]
        /\ removed[arg[t]]

----------------------------------------------------------------------------
\* Accesses to the fields remove, removed, next and prev of elements

\* The elements of which the next step of thread t reads one of the fields.
ReadsOf(t) ==
    CASE pc[t] = "r_check" -> {arg[t]}            \* e.removed
      [] pc[t] = "r_prev"  -> {arg[t]}            \* e.prev
      [] pc[t] = "r_next"  -> {arg[t]}            \* e.next
      [] pc[t] = "r_body"  -> {arg[t]}            \* e.prev, e.next
      [] pc[t] = "n_self"  -> {arg[t]}            \* e.next
      [] pc[t] = "n_loop"  -> {cur[t]} \ {Nil}    \* next.remove
      [] pc[t] = "n_skip"  -> {cur[t]}            \* next.next
      [] pc[t] = "t_read"  -> {arg[t]}            \* e.remove
      [] OTHER -> {}

\* The elements of which the next step of thread t writes one of the fields.
WritesOf(t) ==
    CASE pc[t] = "r_body" ->                      \* e.removed and the
            {arg[t], prev[arg[t]], next[arg[t]]} \ {Nil}   \* neighbours' links
      [] pc[t] = "a_link" -> {tail, nalloc + 1}   \* l.tail.next, e.prev
      [] pc[t] = "m_lock" -> {arg[t]}             \* e.remove
      [] OTHER -> {}

\* The element whose shared lock the next step of thread t takes before it
\* reads.
RLocksInStep(t) ==
    CASE pc[t] \in {"n_self", "t_read"} -> {arg[t]}
      [] pc[t] \in {"n_loop", "n_skip"} -> {cur[t]}
      [] OTHER -> {}

\* The element whose exclusive lock the next step of thread t takes before
\* it writes.
LocksInStep(t) == IF pc[t] = "m_lock" THEN {arg[t]} ELSE {}

HoldsLock(t, e) == elemW[e] = t

HoldsRLock(t, e) == t \in elemR[e]

\* C18.  Every read of an element's remove, removed, next or prev is made by
\* a thread holding that element's lock, shared or exclusive, and every
\* write by a thread holding it exclusively; this includes the removed test
\* and the reads of prev and next in Remove and the write of prev in Append.
C18_ElementLockGuardsFields ==
    [][\A t \in Threads :
          pc'[t] # pc[t] =>
              /\ \A e \in ReadsOf(t) :
                    \/ HoldsLock(t, e)
                    \/ HoldsRLock(t, e)
                    \/ e \in RLocksInStep(t) \cup LocksInStep(t)
              /\ \A e \in WritesOf(t) :
                    HoldsLock(t, e) \/ e \in LocksInStep(t)]_vars

\* Thread t holds no lock, of the list or of any element.
HoldsNothing(t) ==
    /\ listW # t
    /\ \A e \in Elems : ~HoldsLock(t, e) /\ ~HoldsRLock(t, e)
    /\ dfr[t] = {}

\* C19.  When an operation returns, on any of its exit paths, the calling
\* thread holds no list lock and no element lock; Append gives back the lock
\* of the element that was the tail when it took it, not of the new tail.
C19_LocksReleased ==
    [][\A t \in Threads : Returns(t) => HoldsNothing(t)']_vars

\* Append is about to link its element and return while it holds the list
\* lock and the old tail's lock, and another thread is inside Next with the
\* shared lock of an element.
C19_Witness ==
    \E t, u \in Threads :
        /\ pc[t] = "a_link"
        /\ listW = t
        /\ HoldsLock(t, tail)
        /\ pc[u] = "n_loop"
        /\ dfr[u] # {}

\* C20.  Whenever no Append or Remove is in progress, whatever the
\* interleaving of earlier Append and Remove calls, the elements linked from
\* head form a consistent doubly linked list: head has no prev, tail is the
\* last element reached and has no next, and a.next = b implies b.prev = a.
C20_DoublyLinkedConsistent == NoStructuralOp => LinksConsistent

============================================================================
